---------------------------- MODULE Spec2Model ----------------------------
(***************************************************************************)
(* Model of src/tokenizer/tokenizer_manager.rs: TokenizerManager, a        *)
(* registry  name -> TextAnalyzer  kept in an Arc<RwLock<HashMap>>.        *)
(*                                                                         *)
(* A manager handle points to a registry (the Arc); a registry is a map    *)
(* guarded by a reader/writer lock.  register and get are modelled at the  *)
(* granularity of their lock operations so that concurrent calls           *)
(* interleave as threads do.                                               *)
(***************************************************************************)
EXTENDS Integers, Sequences, FiniteSets, TLC

(* ------------------------------ bounds -------------------------------- *)
NThreads == 2
MaxRegistries == 2
MaxHandles == 2
MaxCalls == 3

Threads == 1..NThreads
Registries == 1..MaxRegistries
Handles == 1..MaxHandles

(* ---------------------- Option<T> of the source ----------------------- *)
None == <<"None">>
Some(x) == <<"Some", x>>
Unset == <<"Unset">>
IsSome(o) == o[1] = "Some"
Unwrap(o) == o[2]

(* ------------------- tokenizers, filters, pipelines ------------------- *)
RawTokenizer == "RawTokenizer"
SimpleTokenizer == "SimpleTokenizer"
WhitespaceTokenizer == "WhitespaceTokenizer"

LowerCaser == [filter |-> "LowerCaser"]
RemoveLongFilterLimit(n) == [filter |-> "RemoveLongFilter", limit |-> n]
StemmerNew(language) == [filter |-> "Stemmer", language |-> language]

\* TextAnalyzer::builder(tokenizer) ... .filter(f) ... .build()
Builder(tokenizer) == [tokenizer |-> tokenizer, filters |-> <<>>, cell |-> 0]
Filter(b, f) == [b EXCEPT !.filters = Append(@, f)]
Build(b) == b

\* the two shapes of argument register<T> accepts (TextAnalyzer: From<T>)
BareTokenizer(tokenizer) == [kind |-> "tokenizer", tokenizer |-> tokenizer]
Analyzer(a) == [kind |-> "analyzer", analyzer |-> a]

\* TextAnalyzer::from(tokenizer)
From(x) ==
    IF x.kind = "tokenizer" THEN Build(Builder(x.tokenizer)) ELSE x.analyzer

\* TextAnalyzer::clone as seen by the caller t: same configuration, the
\* per-invocation stream state is the caller's own (cell t)
Clone(a, t) == [a EXCEPT !.cell = t]

\* two analyzers with the same tokenizer and the same ordered filter chain
SameConfig(p, q) == p.tokenizer = q.tokenizer /\ p.filters = q.filters

\* the configuration of an analyzer, whoever owns its stream state
Config(a) == [tokenizer |-> a.tokenizer, filters |-> a.filters]
OptConfig(o) == IF IsSome(o) THEN Some(Config(Unwrap(o))) ELSE o

(* ------------------ execution of a pipeline on a text ----------------- *)
\* a text is a sequence of one-byte characters
Lowercase == {"a", "b", "c", "s", "t"}
Uppercase == {"A", "C", "T"}
Whitespace == {" "}
Punctuation == {","}
Alphanumeric == Lowercase \cup Uppercase
Chars == Alphanumeric \cup Whitespace \cup Punctuation

ToLower(c) ==
    CASE c = "A" -> "a"
      [] c = "C" -> "c"
      [] c = "T" -> "t"
      [] OTHER -> c

Token(text, from, to, position) ==
    [offset_from |-> from - 1, offset_to |-> to, position |-> position,
     position_length |-> 1, text |-> SubSeq(text, from, to), stem |-> <<>>]

\* the maximal runs of text[i..] without a character of seps, as tokens;
\* start is the first index of the run in progress, 0 if none
RECURSIVE Runs(_, _, _, _, _)
Runs(text, seps, i, start, acc) ==
    LET closed == IF start > 0
                  THEN Append(acc, Token(text, start, i - 1, Len(acc)))
                  ELSE acc
    IN IF i > Len(text) THEN closed
       ELSE IF text[i] \in seps THEN Runs(text, seps, i + 1, 0, closed)
       ELSE Runs(text, seps, i + 1, IF start > 0 THEN start ELSE i, acc)

\* Tokenizer::token_stream, drained
Tokenize(tokenizer, text) ==
    CASE tokenizer = RawTokenizer -> <<Token(text, 1, Len(text), 0)>>
      [] tokenizer = SimpleTokenizer -> Runs(text, Chars \ Alphanumeric, 1, 0, <<>>)
      [] tokenizer = WhitespaceTokenizer -> Runs(text, Whitespace, 1, 0, <<>>)

RECURSIVE SelectTokens(_, _)
SelectTokens(tokens, limit) ==
    IF tokens = <<>> THEN <<>>
    ELSE IF Len(Head(tokens).text) > limit
         THEN SelectTokens(Tail(tokens), limit)
         ELSE <<Head(tokens)>> \o SelectTokens(Tail(tokens), limit)

\* the stem of a token is left symbolic: the languages applied, in order
ApplyFilter(f, tokens) ==
    CASE f.filter = "LowerCaser" ->
            [i \in 1..Len(tokens) |-> [tokens[i] EXCEPT !.text =
                [j \in 1..Len(tokens[i].text) |-> ToLower(tokens[i].text[j])]]]
      [] f.filter = "RemoveLongFilter" -> SelectTokens(tokens, f.limit)
      [] f.filter = "Stemmer" ->
            [i \in 1..Len(tokens) |->
                [tokens[i] EXCEPT !.stem = Append(@, f.language)]]

RECURSIVE ApplyFilters(_, _, _)
ApplyFilters(filters, k, tokens) ==
    IF k > Len(filters) THEN tokens
    ELSE ApplyFilters(filters, k + 1, ApplyFilter(filters[k], tokens))

\* every token the stream of analyzer a yields on text, in order
Analyze(a, text) == ApplyFilters(a.filters, 1, Tokenize(a.tokenizer, text))

(* ------------------------ HashMap<String, _> -------------------------- *)
Entry(n, a) == [name |-> n, analyzer |-> a]

HashMapNew == {}

\* mutants of HashMapInsert: keep an existing entry; add without replacing
HashMapInsertIfAbsent(map, n, a) ==
    IF \E e \in map : e.name = n THEN map ELSE map \cup {Entry(n, a)}
HashMapInsertDup(map, n, a) == map \cup {Entry(n, a)}

\* mutant of HashMapInsert: the new entry is all the map holds afterwards
HashMapInsertAlone(map, n, a) == {Entry(n, a)}

HashMapInsert(map, n, a) == {e \in map : e.name # n} \cup {Entry(n, a)}

\* mutant of HashMapGet: an unknown name falls back to some registered entry
HashMapGetFallback(map, n) ==
    IF \E e \in map : e.name = n
    THEN Some((CHOOSE e \in map : e.name = n).analyzer)
    ELSE IF map # {} THEN Some((CHOOSE e \in map : TRUE).analyzer) ELSE None

HashMapGet(map, n) ==
    IF \E e \in map : e.name = n
    THEN Some((CHOOSE e \in map : e.name = n).analyzer)
    ELSE None

Keys(map) == {e.name : e \in map}

\* mutant of Cloned: the caller is handed the stored analyzer itself
ClonedShared(o, t) == o

\* Option<&TextAnalyzer>::cloned() for the caller t
Cloned(o, t) == IF IsSome(o) THEN Some(Clone(Unwrap(o), t)) ELSE None

(* -------------------- the table of default() --------------------------- *)
\* mutant of StemPipeline: the stemmer is placed before the lower-caser
StemPipelineStemFirst(language) ==
    Analyzer(Build(Filter(Filter(Filter(Builder(SimpleTokenizer),
        RemoveLongFilterLimit(40)), StemmerNew(language)), LowerCaser)))

StemPipeline(language) ==
    Analyzer(Build(Filter(Filter(Filter(Builder(SimpleTokenizer),
        RemoveLongFilterLimit(40)), LowerCaser), StemmerNew(language))))

\* mutant of DefaultRegistrations: "es_stem" is registered as "en_stem" again
DefaultRegistrationsDupName == <<
    <<"raw", BareTokenizer(RawTokenizer)>>,
    <<"default", Analyzer(Build(Filter(Filter(Builder(SimpleTokenizer),
        RemoveLongFilterLimit(40)), LowerCaser)))>>,
    <<"de_stem", StemPipeline("German")>>,
    <<"en_stem", StemPipeline("English")>>,
    <<"en_stem", StemPipeline("Spanish")>>,
    <<"fr_stem", StemPipeline("French")>>,
    <<"hu_stem", StemPipeline("Hungarian")>>,
    <<"it_stem", StemPipeline("Italian")>>,
    <<"nl_stem", StemPipeline("Dutch")>>,
    <<"pt_stem", StemPipeline("Portuguese")>>,
    <<"ro_stem", StemPipeline("Romanian")>>,
    <<"ru_stem", StemPipeline("Russian")>>,
    <<"ta_stem", StemPipeline("Tamil")>>,
    <<"whitespace", BareTokenizer(WhitespaceTokenizer)>> >>

DefaultRegistrations == <<
    <<"raw", BareTokenizer(RawTokenizer)>>,
    <<"default", Analyzer(Build(Filter(Filter(Builder(SimpleTokenizer),
        RemoveLongFilterLimit(40)), LowerCaser)))>>,
    <<"de_stem", StemPipeline("German")>>,
    <<"en_stem", StemPipeline("English")>>,
    <<"es_stem", StemPipeline("Spanish")>>,
    <<"fr_stem", StemPipeline("French")>>,
    <<"hu_stem", StemPipeline("Hungarian")>>,
    <<"it_stem", StemPipeline("Italian")>>,
    <<"nl_stem", StemPipeline("Dutch")>>,
    <<"pt_stem", StemPipeline("Portuguese")>>,
    <<"ro_stem", StemPipeline("Romanian")>>,
    <<"ru_stem", StemPipeline("Russian")>>,
    <<"ta_stem", StemPipeline("Tamil")>>,
    <<"whitespace", BareTokenizer(WhitespaceTokenizer)>> >>

\* the map after the first k register calls of default(), from an empty map
RECURSIVE RegisterAll(_, _)
RegisterAll(regs, k) ==
    IF k = 0 THEN HashMapNew
    ELSE HashMapInsert(RegisterAll(regs, k - 1), regs[k][1], From(regs[k][2]))

(* ------------------------- inputs of the calls ------------------------ *)
BuiltinNames == {DefaultRegistrations[i][1] : i \in 1..Len(DefaultRegistrations)}
Names == BuiltinNames \cup {"custom", "missing"}
RegisterNames == {"default", "custom"}
GetNames == {"default", "custom", "missing"}

RegisterInputs == {
    BareTokenizer(RawTokenizer),
    Analyzer(Build(Filter(Builder(WhitespaceTokenizer), LowerCaser))) }

\* history of the same k calls: per name, the last register call completed
RECURSIVE CompletedAll(_, _, _)
CompletedAll(regs, k, h) ==
    IF k = 0 THEN [n \in Names |-> None]
    ELSE [CompletedAll(regs, k - 1, h) EXCEPT ![regs[k][1]] =
            Some([analyzer |-> Config(From(regs[k][2])), via |-> h])]

AnalyzeNames == {"en_stem", "raw"}

LongWord == [i \in 1..41 |-> "a"]
Texts == {
    <<"C", "a", "t", "s", " ", "s", "a", "t">>,
    <<"a", ",", "T", "a", "b">>,
    LongWord \o <<" ", "b">> }

(* ------------------------------ state --------------------------------- *)
VARIABLES
    handles,          \* sequence of TokenizerManager values: handle -> registry
    nregs,            \* number of registries (Arc allocations) made so far
    tokenizers,       \* registry -> the HashMap, a set of entries
    writer,           \* registry -> thread holding the write lock, 0 if none
    readers,          \* registry -> set of threads holding the read lock
    poisoned,         \* registry -> the RwLock's poison flag
    pc,               \* thread -> position in register / get
    self,             \* thread -> the handle (&self) of the call in progress
    tokenizer_name,   \* thread -> the name argument of the call in progress
    boxed_tokenizer,  \* thread -> register's local boxed_tokenizer
    result,           \* thread -> what the thread's last get returned
    origin,           \* history: handle -> the new()/default() call it stems from
    lastReg,          \* history: origin -> name -> last completed register
    attempted,        \* history: origin -> names some register call was given
    allowed,          \* history: thread -> results its get may return
    snap,             \* history: thread -> the entry when the read lock was taken
    ncalls,           \* history: number of register and get calls started
    stream,           \* cell -> the state of the token stream running on it
    input,            \* thread -> the text the thread is analyzing
    out               \* thread -> the tokens the thread has drained so far

lockVars == <<writer, readers, poisoned>>
callVars == <<pc, self, tokenizer_name, boxed_tokenizer>>
histVars == <<origin, lastReg, attempted, allowed, snap, ncalls>>
anaVars == <<stream, input, out>>
vars == <<handles, nregs, tokenizers, lockVars, callVars, result, histVars,
          anaVars>>

Cells == 0..NThreads
NoStream == [text |-> <<>>, cursor |-> 0]

NoName == ""
NoAnalyzer == Unset

Reg(t) == handles[self[t]]
Origin(t) == origin[self[t]]

\* the number a new()/default() call gets: one more than those made so far
NextOrigin == Cardinality({origin[h] : h \in 1..Len(origin)}) + 1

\* the heap before any manager exists
NoManagers ==
    /\ handles = <<>>
    /\ nregs = 0
    /\ tokenizers = [r \in Registries |-> HashMapNew]
    /\ origin = <<>>
    /\ lastReg = [o \in Handles |-> [n \in Names |-> None]]
    /\ attempted = [o \in Handles |-> {}]

\* one manager, just returned by TokenizerManager::new()
AfterNew ==
    /\ handles = <<1>>
    /\ nregs = 1
    /\ tokenizers = [r \in Registries |-> HashMapNew]
    /\ origin = <<1>>
    /\ lastReg = [o \in Handles |-> [n \in Names |-> None]]
    /\ attempted = [o \in Handles |-> {}]

\* one manager, just returned by TokenizerManager::default()
AfterDefault ==
    /\ handles = <<1>>
    /\ nregs = 1
    /\ tokenizers = [r \in Registries |->
            IF r = 1
            THEN RegisterAll(DefaultRegistrations, Len(DefaultRegistrations))
            ELSE HashMapNew]
    /\ origin = <<1>>
    /\ lastReg = [o \in Handles |->
            IF o = 1
            THEN CompletedAll(DefaultRegistrations, Len(DefaultRegistrations), 1)
            ELSE [n \in Names |-> None]]
    /\ attempted = [o \in Handles |-> IF o = 1 THEN BuiltinNames ELSE {}]

\* no lock held, no call in progress
Quiet ==
    /\ writer = [r \in Registries |-> 0]
    /\ readers = [r \in Registries |-> {}]
    /\ poisoned = [r \in Registries |-> FALSE]
    /\ pc = [t \in Threads |-> "idle"]
    /\ self = [t \in Threads |-> 0]
    /\ tokenizer_name = [t \in Threads |-> NoName]
    /\ boxed_tokenizer = [t \in Threads |-> NoAnalyzer]
    /\ result = [t \in Threads |-> Unset]
    /\ allowed = [t \in Threads |-> {}]
    /\ snap = [t \in Threads |-> Unset]
    /\ ncalls = 0
    /\ stream = [c \in Cells |-> NoStream]
    /\ input = [t \in Threads |-> <<>>]
    /\ out = [t \in Threads |-> <<>>]

Init == (AfterNew \/ AfterDefault) /\ Quiet

InitManagers == NoManagers /\ Quiet

(* ---------------------- construction of managers ---------------------- *)
\* mutant of New: after the first call, new() hands out the registry made
\* last instead of a fresh one
NewShared ==
    /\ Len(handles) < MaxHandles
    /\ nregs < MaxRegistries
    /\ nregs' = IF nregs = 0 THEN 1 ELSE nregs
    /\ handles' = Append(handles, nregs')
    /\ tokenizers' = IF nregs = 0 THEN [tokenizers EXCEPT ![1] = HashMapNew]
                     ELSE tokenizers
    /\ origin' = Append(origin, NextOrigin)
    /\ UNCHANGED <<lockVars, callVars, result, lastReg, attempted, allowed,
                   snap, ncalls>>
    /\ UNCHANGED anaVars

\* mutant of New: the fresh registry holds the entries of default()
NewWithDefaults ==
    /\ Len(handles) < MaxHandles
    /\ nregs < MaxRegistries
    /\ nregs' = nregs + 1
    /\ handles' = Append(handles, nregs + 1)
    /\ tokenizers' = [tokenizers EXCEPT ![nregs + 1] =
            RegisterAll(DefaultRegistrations, Len(DefaultRegistrations))]
    /\ origin' = Append(origin, NextOrigin)
    /\ UNCHANGED <<lockVars, callVars, result, lastReg, attempted, allowed,
                   snap, ncalls>>
    /\ UNCHANGED anaVars

\* TokenizerManager::new(): a handle to a fresh registry with an empty map
New ==
    /\ Len(handles) < MaxHandles
    /\ nregs < MaxRegistries
    /\ nregs' = nregs + 1
    /\ handles' = Append(handles, nregs + 1)
    /\ tokenizers' = [tokenizers EXCEPT ![nregs + 1] = HashMapNew]
    /\ origin' = Append(origin, NextOrigin)
    /\ UNCHANGED <<lockVars, callVars, result, lastReg, attempted, allowed,
                   snap, ncalls>>
    /\ UNCHANGED anaVars

\* TokenizerManager::default(): new() followed by the 14 register calls;
\* the registry is not shared before default() returns
Default ==
    /\ Len(handles) < MaxHandles
    /\ nregs < MaxRegistries
    /\ nregs' = nregs + 1
    /\ handles' = Append(handles, nregs + 1)
    /\ tokenizers' = [tokenizers EXCEPT ![nregs + 1] =
            RegisterAll(DefaultRegistrations, Len(DefaultRegistrations))]
    /\ origin' = Append(origin, NextOrigin)
    /\ lastReg' = [lastReg EXCEPT ![NextOrigin] =
            CompletedAll(DefaultRegistrations, Len(DefaultRegistrations),
                         Len(handles) + 1)]
    /\ attempted' = [attempted EXCEPT ![NextOrigin] = BuiltinNames]
    /\ UNCHANGED <<lockVars, callVars, result, allowed, snap, ncalls>>
    /\ UNCHANGED anaVars

\* mutant of CloneHandle: the clone owns a copy of the map
CloneHandleDeep(h) ==
    /\ h \in 1..Len(handles)
    /\ Len(handles) < MaxHandles
    /\ nregs < MaxRegistries
    /\ nregs' = nregs + 1
    /\ handles' = Append(handles, nregs + 1)
    /\ tokenizers' = [tokenizers EXCEPT ![nregs + 1] = tokenizers[handles[h]]]
    /\ origin' = Append(origin, origin[h])
    /\ UNCHANGED <<lockVars, callVars, result, lastReg, attempted, allowed,
                   snap, ncalls>>
    /\ UNCHANGED anaVars

\* #[derive(Clone)]: the clone holds the same Arc
CloneHandle(h) ==
    /\ h \in 1..Len(handles)
    /\ Len(handles) < MaxHandles
    /\ handles' = Append(handles, handles[h])
    /\ origin' = Append(origin, origin[h])
    /\ UNCHANGED <<nregs, tokenizers, lockVars, callVars, result, lastReg,
                   attempted, allowed, snap, ncalls>>
    /\ UNCHANGED anaVars



(* ------------------------------ register ------------------------------ *)
\* line 41: the argument is converted before the lock is requested
RegisterCall(t, h, n, x) ==
    /\ pc[t] = "idle"
    /\ h \in 1..Len(handles)
    /\ ncalls < MaxCalls
    /\ ncalls' = ncalls + 1
    /\ pc' = [pc EXCEPT ![t] = "reg_wait"]
    /\ self' = [self EXCEPT ![t] = h]
    /\ tokenizer_name' = [tokenizer_name EXCEPT ![t] = n]
    /\ boxed_tokenizer' = [boxed_tokenizer EXCEPT ![t] = From(x)]
    /\ attempted' = [attempted EXCEPT ![origin[h]] = @ \cup {n}]
    /\ allowed' = [u \in Threads |->
            IF /\ pc[u] \in {"get_wait", "get_cs"}
               /\ Origin(u) = origin[h]
               /\ tokenizer_name[u] = n
            THEN allowed[u] \cup {Some(Config(From(x)))}
            ELSE allowed[u]]
    /\ UNCHANGED <<handles, nregs, tokenizers, lockVars, result, origin, lastReg,
                   snap>>
    /\ UNCHANGED anaVars

\* mutant of WriteLockFree: a writer does not wait for the readers
WriteLockFreeOfWriters(r) == writer[r] = 0

\* RwLock::write(): granted when no writer and no reader holds the lock
WriteLockFree(r) == writer[r] = 0 /\ readers[r] = {}

\* lines 42-44: .write().expect(..) on a lock that is not poisoned
RegisterAcquire(t) ==
    /\ pc[t] = "reg_wait"
    /\ WriteLockFree(Reg(t))
    /\ ~poisoned[Reg(t)]
    /\ writer' = [writer EXCEPT ![Reg(t)] = t]
    /\ pc' = [pc EXCEPT ![t] = "reg_cs"]
    /\ UNCHANGED <<handles, nregs, tokenizers, readers, poisoned, self,
                   tokenizer_name, boxed_tokenizer, result, histVars>>
    /\ UNCHANGED anaVars

\* mutant of RegisterInsert: the entry goes into a copy of the map
RegisterInsertIntoCopy(t) ==
    /\ pc[t] = "reg_cs"
    /\ pc' = [pc EXCEPT ![t] = "reg_ins"]
    /\ UNCHANGED <<handles, nregs, tokenizers, lockVars, self, tokenizer_name,
                   boxed_tokenizer, result, histVars>>
    /\ UNCHANGED anaVars

\* mutant of RegisterInsert: the pipelines callers got earlier alias the
\* stored entry, so they follow the insert
RegisterInsertThrough(t) ==
    /\ pc[t] = "reg_cs"
    /\ tokenizers' = [tokenizers EXCEPT ![Reg(t)] =
            HashMapInsert(@, tokenizer_name[t], boxed_tokenizer[t])]
    /\ result' = [u \in Threads |->
            IF IsSome(result[u]) THEN Some(Clone(boxed_tokenizer[t], u))
            ELSE result[u]]
    /\ pc' = [pc EXCEPT ![t] = "reg_ins"]
    /\ UNCHANGED <<handles, nregs, lockVars, self, tokenizer_name,
                   boxed_tokenizer, histVars>>
    /\ UNCHANGED anaVars

\* line 45: .insert(tokenizer_name.to_string(), boxed_tokenizer)
RegisterInsert(t) ==
    /\ pc[t] = "reg_cs"
    /\ tokenizers' = [tokenizers EXCEPT ![Reg(t)] =
            HashMapInsert(@, tokenizer_name[t], boxed_tokenizer[t])]
    /\ pc' = [pc EXCEPT ![t] = "reg_ins"]
    /\ UNCHANGED <<handles, nregs, lockVars, self, tokenizer_name,
                   boxed_tokenizer, result, histVars>>
    /\ UNCHANGED anaVars

\* mutant of RegisterRelease: register returns with its write guard alive
RegisterReleaseKeepsGuard(t) ==
    /\ pc[t] = "reg_ins"
    /\ lastReg' = [lastReg EXCEPT ![Origin(t)][tokenizer_name[t]] =
            Some([analyzer |-> Config(boxed_tokenizer[t]), via |-> self[t]])]
    /\ pc' = [pc EXCEPT ![t] = "idle"]
    /\ self' = [self EXCEPT ![t] = 0]
    /\ tokenizer_name' = [tokenizer_name EXCEPT ![t] = NoName]
    /\ boxed_tokenizer' = [boxed_tokenizer EXCEPT ![t] = NoAnalyzer]
    /\ UNCHANGED <<handles, nregs, tokenizers, lockVars, result,
                   origin, attempted, allowed, snap, ncalls>>
    /\ UNCHANGED anaVars

\* line 45-46: the guard is dropped at the end of the statement; return
RegisterRelease(t) ==
    /\ pc[t] = "reg_ins"
    /\ writer' = [writer EXCEPT ![Reg(t)] = 0]
    /\ lastReg' = [lastReg EXCEPT ![Origin(t)][tokenizer_name[t]] =
            Some([analyzer |-> Config(boxed_tokenizer[t]), via |-> self[t]])]
    /\ pc' = [pc EXCEPT ![t] = "idle"]
    /\ self' = [self EXCEPT ![t] = 0]
    /\ tokenizer_name' = [tokenizer_name EXCEPT ![t] = NoName]
    /\ boxed_tokenizer' = [boxed_tokenizer EXCEPT ![t] = NoAnalyzer]
    /\ UNCHANGED <<handles, nregs, tokenizers, readers, poisoned, result,
                   origin, attempted, allowed, snap, ncalls>>
    /\ UNCHANGED anaVars

(* -------------------------------- get --------------------------------- *)
\* the register calls of name n, made through a handle of origin o, that
\* have started and not returned
InFlight(o, n) ==
    {u \in Threads : /\ pc[u] \in {"reg_wait", "reg_cs", "reg_ins"}
                     /\ Origin(u) = o
                     /\ tokenizer_name[u] = n}

LastCompleted(o, n) ==
    IF IsSome(lastReg[o][n]) THEN Some(Unwrap(lastReg[o][n]).analyzer) ELSE None

GetCall(t, h, n) ==
    /\ pc[t] = "idle"
    /\ h \in 1..Len(handles)
    /\ ncalls < MaxCalls
    /\ ncalls' = ncalls + 1
    /\ pc' = [pc EXCEPT ![t] = "get_wait"]
    /\ self' = [self EXCEPT ![t] = h]
    /\ tokenizer_name' = [tokenizer_name EXCEPT ![t] = n]
    /\ allowed' = [allowed EXCEPT ![t] =
            {LastCompleted(origin[h], n)} \cup
            {Some(Config(boxed_tokenizer[u])) : u \in InFlight(origin[h], n)}]
    /\ UNCHANGED <<handles, nregs, tokenizers, lockVars, boxed_tokenizer,
                   result, origin, lastReg, attempted, snap>>
    /\ UNCHANGED anaVars

\* mutant of ReadLockFree: a reader does not wait for the writer
ReadLockFreeAlways(r) == TRUE

\* RwLock::read(): granted when no writer holds the lock
ReadLockFree(r) == writer[r] = 0

\* mutant of GetAcquire: the poison of the lock is ignored
GetAcquireRecover(t) ==
    /\ pc[t] = "get_wait"
    /\ ReadLockFree(Reg(t))
    /\ readers' = [readers EXCEPT ![Reg(t)] = @ \cup {t}]
    /\ pc' = [pc EXCEPT ![t] = "get_cs"]
    /\ snap' = [snap EXCEPT ![t] =
            OptConfig(HashMapGet(tokenizers[Reg(t)], tokenizer_name[t]))]
    /\ UNCHANGED <<handles, nregs, tokenizers, writer, poisoned, self,
                   tokenizer_name, boxed_tokenizer, result, origin, lastReg,
                   attempted, allowed, ncalls>>
    /\ UNCHANGED anaVars

\* lines 50-52: .read().expect(..) on a lock that is not poisoned
GetAcquire(t) ==
    /\ pc[t] = "get_wait"
    /\ ReadLockFree(Reg(t))
    /\ ~poisoned[Reg(t)]
    /\ readers' = [readers EXCEPT ![Reg(t)] = @ \cup {t}]
    /\ pc' = [pc EXCEPT ![t] = "get_cs"]
    /\ snap' = [snap EXCEPT ![t] =
            OptConfig(HashMapGet(tokenizers[Reg(t)], tokenizer_name[t]))]
    /\ UNCHANGED <<handles, nregs, tokenizers, writer, poisoned, self,
                   tokenizer_name, boxed_tokenizer, result, origin, lastReg,
                   attempted, allowed, ncalls>>
    /\ UNCHANGED anaVars

\* mutant of GetLookup: the entry is taken out of the map
GetLookupRemoves(t) ==
    /\ pc[t] = "get_cs"
    /\ result' = [result EXCEPT ![t] =
            Cloned(HashMapGet(tokenizers[Reg(t)], tokenizer_name[t]), t)]
    /\ tokenizers' = [tokenizers EXCEPT ![Reg(t)] =
            {e \in @ : e.name # tokenizer_name[t]}]
    /\ pc' = [pc EXCEPT ![t] = "get_got"]
    /\ UNCHANGED <<handles, nregs, lockVars, self, tokenizer_name,
                   boxed_tokenizer, histVars>>
    /\ UNCHANGED anaVars

\* lines 53-54: .get(tokenizer_name).cloned()
GetLookup(t) ==
    /\ pc[t] = "get_cs"
    /\ result' = [result EXCEPT ![t] =
            Cloned(HashMapGet(tokenizers[Reg(t)], tokenizer_name[t]), t)]
    /\ pc' = [pc EXCEPT ![t] = "get_got"]
    /\ UNCHANGED <<handles, nregs, tokenizers, lockVars, self, tokenizer_name,
                   boxed_tokenizer, histVars>>
    /\ UNCHANGED anaVars

\* mutant of GetRelease: get returns with its read guard still alive
GetReleaseKeepsGuard(t) ==
    /\ pc[t] = "get_got"
    /\ pc' = [pc EXCEPT ![t] = "idle"]
    /\ self' = [self EXCEPT ![t] = 0]
    /\ tokenizer_name' = [tokenizer_name EXCEPT ![t] = NoName]
    /\ allowed' = [allowed EXCEPT ![t] = {}]
    /\ snap' = [snap EXCEPT ![t] = Unset]
    /\ UNCHANGED <<handles, nregs, tokenizers, lockVars, boxed_tokenizer,
                   result, origin, lastReg, attempted, ncalls>>
    /\ UNCHANGED anaVars

\* line 55: the read guard is dropped; the clone is returned to the caller
GetRelease(t) ==
    /\ pc[t] = "get_got"
    /\ readers' = [readers EXCEPT ![Reg(t)] = @ \ {t}]
    /\ pc' = [pc EXCEPT ![t] = "idle"]
    /\ self' = [self EXCEPT ![t] = 0]
    /\ tokenizer_name' = [tokenizer_name EXCEPT ![t] = NoName]
    /\ allowed' = [allowed EXCEPT ![t] = {}]
    /\ snap' = [snap EXCEPT ![t] = Unset]
    /\ UNCHANGED <<handles, nregs, tokenizers, writer, poisoned,
                   boxed_tokenizer, result, origin, lastReg, attempted, ncalls>>
    /\ UNCHANGED anaVars

(* ------------------------- panics and poison ------------------------- *)
\* line 45: a panic while the write guard is held (the insert itself, or the
\* destructor of the analyzer it replaced); the guard is dropped during
\* unwinding, which poisons the lock
RegisterPanic(t) ==
    /\ pc[t] \in {"reg_cs", "reg_ins"}
    /\ poisoned' = [poisoned EXCEPT ![Reg(t)] = TRUE]
    /\ writer' = [writer EXCEPT ![Reg(t)] = 0]
    /\ pc' = [pc EXCEPT ![t] = "panicked"]
    /\ UNCHANGED <<handles, nregs, tokenizers, readers, self, tokenizer_name,
                   boxed_tokenizer, result, histVars, anaVars>>

\* lines 43-44: .write() on a poisoned lock is an Err; .expect(..) panics
RegisterAcquirePoisoned(t) ==
    /\ pc[t] = "reg_wait"
    /\ WriteLockFree(Reg(t))
    /\ poisoned[Reg(t)]
    /\ pc' = [pc EXCEPT ![t] = "panicked"]
    /\ UNCHANGED <<handles, nregs, tokenizers, lockVars, self, tokenizer_name,
                   boxed_tokenizer, result, histVars, anaVars>>

\* lines 51-52: .read() on a poisoned lock is an Err; .expect(..) panics
GetAcquirePoisoned(t) ==
    /\ pc[t] = "get_wait"
    /\ ReadLockFree(Reg(t))
    /\ poisoned[Reg(t)]
    /\ pc' = [pc EXCEPT ![t] = "panicked"]
    /\ UNCHANGED <<handles, nregs, tokenizers, lockVars, self, tokenizer_name,
                   boxed_tokenizer, result, histVars, anaVars>>

(* --------------------------- specification ---------------------------- *)
Calls(T) ==
    \/ \E t \in T, h \in 1..MaxHandles, n \in RegisterNames,
          x \in RegisterInputs : RegisterCall(t, h, n, x)
    \/ \E t \in T : RegisterAcquire(t)
    \/ \E t \in T : RegisterInsert(t)
    \/ \E t \in T : RegisterRelease(t)
    \/ \E t \in T, h \in 1..MaxHandles, n \in GetNames : GetCall(t, h, n)
    \/ \E t \in T : GetAcquire(t)
    \/ \E t \in T : GetLookup(t)
    \/ \E t \in T : GetRelease(t)

\* threads calling register and get on one manager; no call panics
Next == Calls(Threads)

Spec == Init /\ [][Next]_vars

\* the next step of the call thread t is in
Step(t) ==
    \/ RegisterAcquire(t)
    \/ RegisterInsert(t)
    \/ RegisterRelease(t)
    \/ GetAcquire(t)
    \/ GetLookup(t)
    \/ GetRelease(t)

\* a thread inside a call takes its next step; a fair lock grants a request
\* that can be granted again and again
Fairness == \A t \in Threads : SF_vars(Step(t))

\* whether a call completes does not depend on the name or the pipeline it
\* is given: the threads register and look up one name on a manager made by
\* new()
NextFair ==
    \/ \E t \in Threads : RegisterCall(t, 1, "custom", BareTokenizer(RawTokenizer))
    \/ \E t \in Threads : GetCall(t, 1, "custom")
    \/ \E t \in Threads : Step(t)

InitFair == AfterNew /\ Quiet

SpecFair == InitFair /\ [][NextFair]_vars /\ Fairness

\* managers are created and cloned; one thread calls register and get
NextManagers ==
    \/ New
    \/ Default
    \/ \E h \in 1..MaxHandles : CloneHandle(h)
    \/ Calls({1})

SpecManagers == InitManagers /\ [][NextManagers]_vars

\* as Spec, with writers that may panic inside the critical section
NextPoison ==
    \/ Next
    \/ \E t \in Threads : RegisterPanic(t)
    \/ \E t \in Threads : RegisterAcquirePoisoned(t)
    \/ \E t \in Threads : GetAcquirePoisoned(t)

SpecPoison == Init /\ [][NextPoison]_vars


(* ------------------------- use of a pipeline -------------------------- *)
\* analyzer.token_stream(text) on the analyzer the thread's get returned
TokenStream(t, text) ==
    /\ pc[t] = "idle"
    /\ IsSome(result[t])
    /\ stream' = [stream EXCEPT ![Unwrap(result[t]).cell] =
            [text |-> text, cursor |-> 0]]
    /\ input' = [input EXCEPT ![t] = text]
    /\ out' = [out EXCEPT ![t] = <<>>]
    /\ pc' = [pc EXCEPT ![t] = "analyzing"]
    /\ UNCHANGED <<handles, nregs, tokenizers, lockVars, self, tokenizer_name,
                   boxed_tokenizer, result, histVars>>

\* the tokens the stream of the thread's analyzer has still to yield
Pending(t) ==
    LET s == stream[Unwrap(result[t]).cell]
        all == Analyze(Unwrap(result[t]), s.text)
    IN SubSeq(all, s.cursor + 1, Len(all))

\* stream.advance() returned true: the caller takes the current token
Advance(t) ==
    /\ pc[t] = "analyzing"
    /\ Pending(t) # <<>>
    /\ out' = [out EXCEPT ![t] = Append(@, Head(Pending(t)))]
    /\ stream' = [stream EXCEPT ![Unwrap(result[t]).cell].cursor = @ + 1]
    /\ UNCHANGED <<handles, nregs, tokenizers, lockVars, callVars, result,
                   histVars, input>>

\* stream.advance() returned false: the stream is drained
Drained(t) ==
    /\ pc[t] = "analyzing"
    /\ Pending(t) = <<>>
    /\ pc' = [pc EXCEPT ![t] = "drained"]
    /\ UNCHANGED <<handles, nregs, tokenizers, lockVars, self, tokenizer_name,
                   boxed_tokenizer, result, histVars, anaVars>>

\* the stream is dropped
DropStream(t) ==
    /\ pc[t] = "drained"
    /\ pc' = [pc EXCEPT ![t] = "idle"]
    /\ input' = [input EXCEPT ![t] = <<>>]
    /\ out' = [out EXCEPT ![t] = <<>>]
    /\ UNCHANGED <<handles, nregs, tokenizers, lockVars, self, tokenizer_name,
                   boxed_tokenizer, result, histVars, stream>>

\* threads look pipelines up on a default manager and run them on texts
NextAnalyze ==
    \/ \E t \in Threads, n \in AnalyzeNames : GetCall(t, 1, n)
    \/ \E t \in Threads : GetAcquire(t)
    \/ \E t \in Threads : GetLookup(t)
    \/ \E t \in Threads : GetRelease(t)
    \/ \E t \in Threads, text \in Texts : TokenStream(t, text)
    \/ \E t \in Threads : Advance(t)
    \/ \E t \in Threads : Drained(t)
    \/ \E t \in Threads : DropStream(t)

\* a manager returned by default(); nothing is being analyzed
InitAnalyze == AfterDefault /\ Quiet

SpecAnalyze == InitAnalyze /\ [][NextAnalyze]_vars

\* the text the callers of SpecUse analyze
UseTexts == {<<"a", ",", "T", "a", "b">>}

\* threads register pipelines under one name on a manager made by new(),
\* look the name up and run what they got on a text
NextUse ==
    \/ \E t \in Threads, x \in RegisterInputs : RegisterCall(t, 1, "custom", x)
    \/ \E t \in Threads : GetCall(t, 1, "custom")
    \/ \E t \in Threads : Step(t)
    \/ \E t \in Threads, text \in UseTexts : TokenStream(t, text)
    \/ \E t \in Threads : Advance(t)
    \/ \E t \in Threads : Drained(t)
    \/ \E t \in Threads : DropStream(t)

InitUse == AfterNew /\ Quiet

SpecUse == InitUse /\ [][NextUse]_vars

(* ------------------------------ properties ---------------------------- *)
InWriteSection(t) == pc[t] \in {"reg_cs", "reg_ins"}
InReadSection(t) == pc[t] \in {"get_cs", "get_got"}
EntriesFor(r, n) == {e \in tokenizers[r] : e.name = n}

\* C1: once a register(n, p) has completed on a registry, a get(n) on it
\* returns Some(q) where q has the tokenizer and the ordered filter chain of
\* the p most recently registered under n, and so yields the same tokens on
\* every text.
C1_RegisterThenGet ==
    \A t \in Threads :
        (pc[t] = "get_got" /\ IsSome(lastReg[Origin(t)][tokenizer_name[t]])) =>
            /\ IsSome(result[t])
            /\ SameConfig(Unwrap(result[t]),
                          Unwrap(lastReg[Origin(t)][tokenizer_name[t]]).analyzer)
            /\ \A text \in Texts :
                    Analyze(Unwrap(result[t]), text) =
                    Analyze(Unwrap(lastReg[Origin(t)][tokenizer_name[t]]).analyzer,
                            text)

\* a get has returned the analyzer a caller registered under "custom"
C1_Witness ==
    \E t \in Threads :
        /\ pc[t] = "get_got"
        /\ tokenizer_name[t] = "custom"
        /\ IsSome(result[t])
        /\ Unwrap(result[t]).filters = <<LowerCaser>>

\* C2: register is insert-or-replace: a registry never holds two entries for
\* a name, right after the insert the only entry for the name is the new
\* pipeline, and whenever no writer is inside, a lookup of the name yields
\* the pipeline of the latest completed registration.
C2_InsertOrReplace ==
    /\ \A r \in Registries, n \in Names : Cardinality(EntriesFor(r, n)) <= 1
    /\ \A t \in Threads : pc[t] = "reg_ins" =>
            EntriesFor(Reg(t), tokenizer_name[t]) =
                {Entry(tokenizer_name[t], boxed_tokenizer[t])}
    /\ \A h \in 1..Len(handles), n \in Names : writer[handles[h]] = 0 =>
            OptConfig(HashMapGet(tokenizers[handles[h]], n)) =
                LastCompleted(origin[h], n)

\* a register("default", p2) has just replaced a different pipeline that an
\* earlier register had put under "default"
C2_Witness ==
    \E t \in Threads :
        /\ pc[t] = "reg_ins"
        /\ tokenizer_name[t] = "default"
        /\ IsSome(lastReg[Origin(t)]["default"])
        /\ Unwrap(lastReg[Origin(t)]["default"]).analyzer # Config(boxed_tokenizer[t])
        /\ "raw" \in Keys(tokenizers[Reg(t)])

\* C3: a get of a name no register call was ever given on that registry
\* (by a caller or by default()) returns None.
C3_UnregisteredIsNone ==
    \A t \in Threads :
        (pc[t] = "get_got" /\ tokenizer_name[t] \notin attempted[Origin(t)]) =>
            result[t] = None

\* get("missing") returned None on a default-constructed manager on which a
\* caller has registered another name
C3_Witness ==
    \E t \in Threads :
        /\ pc[t] = "get_got"
        /\ tokenizer_name[t] = "missing"
        /\ result[t] = None
        /\ {"raw", "custom"} \subseteq Keys(tokenizers[Reg(t)])

\* C6: while a register call holds the write lock no other register call and
\* no get call is inside its critical section on that registry; a get that
\* waits while no register call holds or awaits the lock can enter, however
\* many get calls are inside.
C6_ReaderWriterExclusion ==
    /\ \A t \in Threads : \A u \in Threads \ {t} :
            (InWriteSection(t) /\ (InWriteSection(u) \/ InReadSection(u))) =>
                Reg(u) # Reg(t)
    /\ \A t \in Threads :
            (/\ pc[t] = "get_wait"
             /\ \A u \in Threads :
                    ~(pc[u] \in {"reg_wait", "reg_cs", "reg_ins"} /\ Reg(u) = Reg(t)))
            => ENABLED GetAcquire(t)

\* two get calls are inside their critical sections on one registry
C6_Witness ==
    \E t \in Threads : \E u \in Threads \ {t} :
        /\ pc[t] = "get_cs"
        /\ InReadSection(u)
        /\ Reg(u) = Reg(t)

\* C7: a get(n) returns the pipeline of the register(n, _) that completed
\* last before the get started, or that of a register(n, _) in progress
\* at or after that moment; never None and never an older pipeline.
C7_WritesVisible ==
    \A t \in Threads :
        (pc[t] = "get_got" /\ None \notin allowed[t]) =>
            /\ IsSome(result[t])
            /\ OptConfig(result[t]) \in allowed[t]

\* a get returned the pipeline a completed register put under "default" in
\* place of the built-in one, while another thread's register of "default"
\* that started during the get awaits the lock
C7_Witness ==
    \E t \in Threads : \E u \in Threads \ {t} :
        /\ pc[t] = "get_got"
        /\ tokenizer_name[t] = "default"
        /\ "raw" \in Keys(tokenizers[Reg(t)])
        /\ OptConfig(result[t]) = Some(Config(From(BareTokenizer(RawTokenizer))))
        /\ pc[u] = "reg_wait"
        /\ tokenizer_name[u] = "default"
        /\ Cardinality(allowed[t]) = 2

\* C8: a get returns the whole entry that was under the name when it took
\* the read lock, whatever register calls are in progress.
C8_GetAtomic ==
    \A t \in Threads : pc[t] = "get_got" => OptConfig(result[t]) = snap[t]

\* a get has returned the entry from before a register of the same name that
\* is waiting for the lock
C8_Witness ==
    \E t \in Threads : \E u \in Threads \ {t} :
        /\ pc[t] = "get_got"
        /\ pc[u] = "reg_wait"
        /\ Reg(u) = Reg(t)
        /\ tokenizer_name[u] = tokenizer_name[t]
        /\ OptConfig(result[t]) # Some(Config(boxed_tokenizer[u]))


\* what get(n) returns on a registry whose map is map and whose lock is free
GetOn(map, n) == OptConfig(Cloned(HashMapGet(map, n), 1))

\* C4: right after default() returns, get returns Some for exactly the 14
\* names listed, the map holds 14 entries, and no register call of
\* default() is given a name an earlier one was given.
C4_DefaultNames ==
    [][Default =>
        LET map == tokenizers'[nregs'] IN
        /\ {n \in Names : IsSome(GetOn(map, n))} =
                {"raw", "default", "whitespace", "de_stem", "en_stem", "es_stem",
                 "fr_stem", "hu_stem", "it_stem", "nl_stem", "pt_stem",
                 "ro_stem", "ru_stem", "ta_stem"}
        /\ Cardinality(map) = 14
        /\ Len(DefaultRegistrations) = 14
        /\ \A k \in 1..Len(DefaultRegistrations) :
                DefaultRegistrations[k][1] \notin
                    Keys(RegisterAll(DefaultRegistrations, k - 1))
    ]_vars

\* a manager returned by default() on which no call has been made yet
C4_Witness ==
    \E r \in 1..nregs :
        /\ Cardinality(Keys(tokenizers[r])) = 14
        /\ {"raw", "ta_stem", "whitespace"} \subseteq Keys(tokenizers[r])
        /\ ncalls = 0

C5_DefaultChain ==
    <<[filter |-> "RemoveLongFilter", limit |-> 40], [filter |-> "LowerCaser"]>>

C5_Languages == {
    <<"de_stem", "German">>, <<"en_stem", "English">>, <<"es_stem", "Spanish">>,
    <<"fr_stem", "French">>, <<"hu_stem", "Hungarian">>, <<"it_stem", "Italian">>,
    <<"nl_stem", "Dutch">>, <<"pt_stem", "Portuguese">>, <<"ro_stem", "Romanian">>,
    <<"ru_stem", "Russian">>, <<"ta_stem", "Tamil">> }

\* C5: right after default() returns, raw is RawTokenizer with no filter,
\* whitespace is WhitespaceTokenizer with no filter, default is
\* SimpleTokenizer with [RemoveLongFilter(40), LowerCaser], and each of the 11
\* <lang>_stem entries is SimpleTokenizer with the same two filters followed
\* by the Stemmer of the language of its name.
C5_DefaultPipelines ==
    [][Default =>
        LET map == tokenizers'[nregs'] IN
        /\ GetOn(map, "raw") = Some([tokenizer |-> "RawTokenizer", filters |-> <<>>])
        /\ GetOn(map, "whitespace") =
                Some([tokenizer |-> "WhitespaceTokenizer", filters |-> <<>>])
        /\ GetOn(map, "default") =
                Some([tokenizer |-> "SimpleTokenizer", filters |-> C5_DefaultChain])
        /\ Cardinality(C5_Languages) = 11
        /\ \A nl \in C5_Languages :
                GetOn(map, nl[1]) =
                    Some([tokenizer |-> "SimpleTokenizer",
                          filters |-> C5_DefaultChain \o
                              <<[filter |-> "Stemmer", language |-> nl[2]]>>])
    ]_vars

\* a manager returned by default() whose "hu_stem" entry ends in a stemmer
C5_Witness ==
    \E r \in 1..nregs :
        /\ ncalls = 0
        /\ IsSome(HashMapGet(tokenizers[r], "hu_stem"))
        /\ Len(Unwrap(HashMapGet(tokenizers[r], "hu_stem")).filters) = 3

\* C10: a register made through one handle is what a later get through
\* another handle of the same registry returns, and cloning a handle makes
\* no registry and leaves every map as it is.
C10_ClonesShareRegistry ==
    /\ [](\A t \in Threads :
            (/\ pc[t] = "get_got"
             /\ IsSome(lastReg[Origin(t)][tokenizer_name[t]])
             /\ Unwrap(lastReg[Origin(t)][tokenizer_name[t]]).via # self[t])
            => OptConfig(result[t]) = LastCompleted(Origin(t), tokenizer_name[t]))
    /\ [][\A h \in 1..MaxHandles : CloneHandle(h) =>
            /\ handles'[Len(handles')] = handles[h]
            /\ origin'[Len(origin')] = origin[h]
            /\ nregs' = nregs
            /\ tokenizers' = tokenizers]_vars

\* a get through one handle returned what was registered under "custom"
\* through another handle of the same registry
C10_Witness ==
    \E t \in Threads :
        /\ pc[t] = "get_got"
        /\ tokenizer_name[t] = "custom"
        /\ IsSome(result[t])
        /\ Unwrap(lastReg[Origin(t)]["custom"]).via # self[t]

\* C9: whatever the interleaving, the tokens a thread has drained from the
\* stream of the analyzer its get returned are the tokens of its own text:
\* a prefix while the stream runs, all of them once it is drained; and the
\* analyzers two threads hold never share their stream state.
C9_CloneIndependence ==
    /\ \A t \in Threads : pc[t] \in {"analyzing", "drained"} =>
            LET all == Analyze(Unwrap(result[t]), input[t]) IN
            /\ Len(out[t]) <= Len(all)
            /\ out[t] = SubSeq(all, 1, Len(out[t]))
            /\ pc[t] = "drained" => out[t] = all
    /\ \A t \in Threads : \A u \in Threads \ {t} :
            (IsSome(result[t]) /\ IsSome(result[u])) =>
                Unwrap(result[t]).cell # Unwrap(result[u]).cell

\* two threads hold clones of "en_stem"; one has drained the stream of its
\* text while the other is in the middle of a different text
C9_Witness ==
    \E t \in Threads : \E u \in Threads \ {t} :
        /\ pc[t] = "drained"
        /\ pc[u] = "analyzing"
        /\ Len(out[t]) = 2
        /\ Len(out[u]) = 1
        /\ input[t] # input[u]
        /\ Unwrap(result[t]).filters = Unwrap(result[u]).filters
        /\ Len(Unwrap(result[t]).filters) = 3

\* the calls in progress
InCall(t) ==
    pc[t] \in {"reg_wait", "reg_cs", "reg_ins", "get_wait", "get_cs", "get_got"}

\* the step is the return of thread t's register or get
Returns(t) == pc[t] \in {"reg_ins", "get_got"} /\ pc'[t] = "idle"

\* C11: once a writer has panicked under the write lock the registry stays
\* poisoned, no call is inside its critical section, no register and no get
\* on it returns, and a call that reaches the lock can only abort; a thread
\* aborts only on a poisoned registry, and a get that returns, returns
\* Some(pipeline) or None.
C11_PoisonIsFatal ==
    /\ [](\A t \in Threads :
            /\ (InWriteSection(t) \/ InReadSection(t)) => ~poisoned[Reg(t)]
            /\ pc[t] = "panicked" => poisoned[Reg(t)]
            /\ pc[t] = "get_got" => result[t][1] \in {"Some", "None"})
    /\ [][\A t \in Threads :
            /\ \A r \in Registries : poisoned[r] => poisoned'[r]
            /\ Returns(t) => ~poisoned[Reg(t)]
            /\ (InCall(t) /\ poisoned[Reg(t)] /\ pc'[t] # pc[t]) =>
                    pc'[t] = "panicked"]_vars

\* a register of "custom" panicked after its insert, and the get another
\* caller made on the poisoned registry has aborted
C11_Witness ==
    \E t \in Threads : \E u \in Threads \ {t} :
        /\ pc[t] = "panicked"
        /\ tokenizer_name[t] = "custom"
        /\ "custom" \in Keys(tokenizers[Reg(t)])
        /\ pc[u] = "panicked"
        /\ tokenizer_name[u] = "missing"
        /\ Reg(u) = Reg(t)
        /\ poisoned[Reg(u)]
        /\ ncalls = 2

\* C12: the registry new() returns is empty, so every name, built-in names
\* included, looks up to None; and a get through a handle of a manager made
\* by new(), on which no register call has been started, returns None.
C12_NewIsEmpty ==
    /\ [](\A t \in Threads :
            (pc[t] = "get_got" /\ attempted[Origin(t)] = {}) =>
                result[t] = None)
    /\ [][New =>
            /\ tokenizers'[nregs'] = {}
            /\ \A n \in Names : GetOn(tokenizers'[nregs'], n) = None]_vars

\* get("default") returned None on a manager made by new(), while a manager
\* made by default() exists
C12_Witness ==
    \E t \in Threads : \E r \in 1..nregs :
        /\ pc[t] = "get_got"
        /\ tokenizer_name[t] = "default"
        /\ result[t] = None
        /\ attempted[Origin(t)] = {}
        /\ r # Reg(t)
        /\ "default" \in Keys(tokenizers[r])

\* the registry locks thread t holds
Holds(t) == {r \in Registries : writer[r] = t \/ t \in readers[r]}

\* C13: under a fair lock and with no panic every register and every get
\* that has started returns; a thread outside a call or waiting holds no
\* lock, inside its critical section it holds the lock of its registry and
\* no other, it takes that lock once, from its waiting position, and a call
\* returns only from inside its critical section, giving the lock back.
C13_CallsComplete ==
    /\ \A t \in Threads : InCall(t) ~> (pc[t] = "idle")
    /\ [](\A t \in Threads :
            Holds(t) = IF InWriteSection(t) \/ InReadSection(t)
                       THEN {Reg(t)} ELSE {})
    /\ [][\A t \in Threads :
            /\ (Holds(t) = {} /\ Holds(t)' # {}) =>
                    pc[t] \in {"reg_wait", "get_wait"}
            /\ (InCall(t) /\ pc'[t] = "idle") =>
                    (Holds(t) # {} /\ Holds(t)' = {})]_vars

\* a register waits for the lock a get of another thread holds, after an
\* earlier register has completed
C13_Witness ==
    \E t \in Threads : \E u \in Threads \ {t} :
        /\ pc[t] = "reg_wait"
        /\ pc[u] = "get_cs"
        /\ Reg(u) = Reg(t)
        /\ ~ENABLED RegisterAcquire(t)
        /\ IsSome(lastReg[Origin(t)]["custom"])

\* thread t is between two calls, possibly running a pipeline
Outside(t) == pc[t] \in {"idle", "analyzing", "drained"}

\* C14: a thread outside register and get, running a pipeline or not, holds
\* no lock; a pipeline runs on the caller's own clone, never on the stored
\* instance; register has converted its argument when it requests the lock
\* and does not touch it up to the insert; a map changes only by the one
\* insert a register makes inside its critical section; and a register
\* waiting while every other thread is outside a call is granted the lock.
C14_NoLockDuringExecution ==
    /\ [](\A t \in Threads :
            /\ Outside(t) => Holds(t) = {}
            /\ pc[t] \in {"analyzing", "drained"} =>
                    (IsSome(result[t]) /\ Unwrap(result[t]).cell = t)
            /\ pc[t] = "reg_wait" =>
                    boxed_tokenizer[t] \in {From(x) : x \in RegisterInputs}
            /\ (pc[t] = "reg_wait" /\ \A u \in Threads \ {t} : Outside(u)) =>
                    ENABLED RegisterAcquire(t))
    /\ [](/\ stream[0] = NoStream
          /\ \A r \in Registries : \A e \in tokenizers[r] : e.analyzer.cell = 0)
    /\ [][/\ \A t \in Threads : pc[t] \in {"reg_wait", "reg_cs"} =>
                    boxed_tokenizer'[t] = boxed_tokenizer[t]
          /\ tokenizers' # tokenizers =>
                \E t \in Threads :
                    /\ pc[t] = "reg_cs" /\ pc'[t] = "reg_ins"
                    /\ tokenizers' = [tokenizers EXCEPT ![Reg(t)] =
                            HashMapInsert(@, tokenizer_name[t], boxed_tokenizer[t])]
          /\ \A t \in Threads : pc[t] = "reg_ins" =>
                    (tokenizers' = tokenizers /\ pc'[t] \in {"reg_ins", "idle"})
         ]_vars

\* a thread is in the middle of the stream of the pipeline it got while
\* another thread's register is inside its critical section
C14_Witness ==
    \E t \in Threads : \E u \in Threads \ {t} :
        /\ pc[t] = "analyzing"
        /\ Len(out[t]) = 1
        /\ pc[u] = "reg_cs"
        /\ writer[1] = u

\* C15: the insert of register(n, p) leaves the entry of every other name,
\* and every other registry, as it was; every other step of a register and
\* every step of a get, whatever it returns, leaves all maps unchanged.
C15_Frame ==
    [][\A t \in Threads :
        /\ (pc[t] = "reg_cs" /\ pc'[t] = "reg_ins") =>
                \A r \in Registries, m \in Names :
                    (r # Reg(t) \/ m # tokenizer_name[t]) =>
                        EntriesFor(r, m)' = EntriesFor(r, m)
        /\ (pc[t] # "reg_cs" /\ pc'[t] # pc[t]) => tokenizers' = tokenizers
      ]_vars

\* a register has just put "custom" into a default-constructed registry,
\* which still holds its 14 entries, after gets that returned Some and None
C15_Witness ==
    \E t \in Threads : \E u \in Threads \ {t} :
        /\ pc[t] = "reg_ins"
        /\ tokenizer_name[t] = "custom"
        /\ {e \in tokenizers[Reg(t)] : e.name # "custom"} =
                RegisterAll(DefaultRegistrations, Len(DefaultRegistrations))
        /\ Cardinality(tokenizers[Reg(t)]) = 15
        /\ pc[u] = "idle"
        /\ result[u] \in {None, Some(Clone(From(DefaultRegistrations[2][2]), u))}

\* C16: the lookup of a get hands the caller the pipeline stored under the
\* name at that moment; no other step, a later register of the name
\* included, changes the pipeline a caller holds; and the tokens the caller
\* drains are those of the pipeline it holds.
C16_ReturnedIsSnapshot ==
    /\ [][\A t \in Threads :
            /\ (pc[t] = "get_cs" /\ pc'[t] = "get_got") =>
                    OptConfig(result'[t]) =
                        OptConfig(HashMapGet(tokenizers[Reg(t)], tokenizer_name[t]))
            /\ pc[t] # "get_cs" => result'[t] = result[t]]_vars
    /\ [](\A t \in Threads : pc[t] \in {"analyzing", "drained"} =>
            LET all == Analyze(Unwrap(result[t]), input[t]) IN
            /\ Len(out[t]) <= Len(all)
            /\ out[t] = SubSeq(all, 1, Len(out[t])))

\* a caller drains a token of the pipeline it got under "custom" after a
\* later register has replaced the entry by a different pipeline, whose
\* token on the same text differs
C16_Witness ==
    \E t \in Threads :
        /\ pc[t] = "analyzing"
        /\ Len(out[t]) = 1
        /\ writer[1] = 0
        /\ IsSome(HashMapGet(tokenizers[1], "custom"))
        /\ Config(Unwrap(HashMapGet(tokenizers[1], "custom"))) #
                Config(Unwrap(result[t]))
        /\ Analyze(Unwrap(HashMapGet(tokenizers[1], "custom")), input[t]) # out[t]
        /\ \A u \in Threads \ {t} : pc[u] = "idle"

\* thread t's get of name n has looked the name up in the manager's registry
GetReturned(t, n) ==
    pc[t] = "get_got" /\ Reg(t) = handles[1] /\ tokenizer_name[t] = n

\* C17: no step takes a name out of a map; once a get of a name has come
\* back with Some on the manager's registry, every get of the name on it
\* from then on comes back with Some; and a registry that default() filled
\* holds the 14 built-in names in every state.
C17_NamesOnlyGrow ==
    /\ [][\A r \in Registries : Keys(tokenizers[r]) \subseteq Keys(tokenizers[r])']_vars
    /\ \A n \in RegisterNames :
            []((\E t \in Threads : GetReturned(t, n) /\ IsSome(result[t])) =>
                    [](\A u \in Threads : GetReturned(u, n) => IsSome(result[u])))
    /\ [](\A h \in 1..Len(handles) :
            BuiltinNames \subseteq attempted[origin[h]] =>
                BuiltinNames \subseteq Keys(tokenizers[handles[h]]))

\* get("default") came back with Some before and after a register replaced
\* the built-in pipeline of a default-constructed manager
C17_Witness ==
    \E t \in Threads : \E u \in Threads \ {t} :
        /\ pc[t] = "get_got"
        /\ tokenizer_name[t] = "default"
        /\ IsSome(result[t])
        /\ Config(Unwrap(result[t])) = Config(From(BareTokenizer(RawTokenizer)))
        /\ pc[u] = "idle"
        /\ IsSome(result[u])
        /\ Config(Unwrap(result[u])) = Config(From(DefaultRegistrations[2][2]))
        /\ Cardinality(Keys(tokenizers[Reg(t)])) = 14

\* the registries the handles made so far point to
Live == {handles[h] : h \in 1..Len(handles)}

\* C18: new() and default() return a handle to a registry no earlier handle
\* points to and leave the maps of the others as they are; handles that stem
\* from different constructor calls never point to one registry; an insert
\* changes the map of the caller's registry only; and a get returns what
\* was last registered under the name through a handle of the same
\* constructor call, None if nothing was.
C18_ManagersIsolated ==
    /\ [][(New \/ Default) =>
            /\ handles'[Len(handles')] \notin Live
            /\ \A r \in Live : tokenizers'[r] = tokenizers[r]]_vars
    /\ [][\A t \in Threads : (pc[t] = "reg_cs" /\ pc'[t] = "reg_ins") =>
            \A r \in Registries \ {Reg(t)} : tokenizers'[r] = tokenizers[r]]_vars
    /\ [](/\ \A h \in 1..Len(handles), g \in 1..Len(handles) :
                origin[h] # origin[g] => handles[h] # handles[g]
          /\ \A t \in Threads : pc[t] = "get_got" =>
                OptConfig(result[t]) = LastCompleted(Origin(t), tokenizer_name[t]))

\* a get of "custom" through one manager returned None after a register of
\* "custom" completed on another, separately constructed manager
C18_Witness ==
    \E t \in Threads : \E h \in 1..Len(handles) :
        /\ pc[t] = "get_got"
        /\ tokenizer_name[t] = "custom"
        /\ result[t] = None
        /\ origin[h] # Origin(t)
        /\ IsSome(lastReg[origin[h]]["custom"])
        /\ "custom" \in Keys(tokenizers[handles[h]])

=============================================================================
